---------------------------- MODULE Spec2Model ----------------------------
(***************************************************************************)
(* Fetch-parse pipeline of the HackerNews scraper.                         *)
(*                                                                         *)
(* One scraper instance of either variant is modelled:                     *)
(*   "sync"  : HackerNewsScraper       (core/scraper.py)                   *)
(*   "async" : AsyncHackerNewsScraper  (core/async_scraper.py)             *)
(*                                                                         *)
(* A run of scrape_stories is a process.  Run "direct" is scrape_stories   *)
(* called by a caller's own thread or task (gui.py runs it in a worker     *)
(* thread); run "bg" is the thread created by start_scraping.  A separate  *)
(* controlling thread calls start_scraping and stop_scraping.              *)
(*                                                                         *)
(* Time is discrete and passes (Tick) only while some run waits: in a      *)
(* sleep or for a response.  Only differences of time.time() values are    *)
(* ever used by the code, so the model keeps elapsed times, not clock      *)
(* values: time_since_last is time.time() - last_request_time, counted up  *)
(* by Tick and reset when _respect_rate_limit stamps last_request_time;    *)
(* an elapsed time of LongAgo stands for "more than any rate limit".  A    *)
(* sleep lasts at least the time asked for.  The start time of a request   *)
(* is the time _respect_rate_limit stamps right before the request is sent.*)
(***************************************************************************)
EXTENDS Integers, Sequences, FiniteSets, TLC

VARIABLES
    variant,            \* which scraper class the instance is
    constructed,        \* FALSE when __init__ raised RobotsTxtError
    config,             \* ScraperConfig: rate_limit, max_retries
    siteRules,          \* the path prefixes the site's robots.txt disallows
    robot_parser,       \* the rules the instance's robot_parser holds
    time_since_last,    \* time.time() - self.last_request_time, at most LongAgo
    stopFlag,           \* self._stop_flag
    scraping,           \* self._scraping
    scrapeThread,       \* self._scrape_thread: "none", "alive", "finished"
    ctl,                \* the controlling thread: "idle", or "joining" in stop_scraping
    ctlRaised,          \* whether the last start_scraping call raised
    stopCalledPage,     \* page the background run was at when stop_scraping was called (0: not called)
    run,                \* per run: the locals of scrape_stories/_make_request
    robotsReachable,    \* whether the site's robots.txt can be retrieved
    robotsRequests,     \* robots.txt requests made by __init__
    sessionAgent,       \* the User-Agent header of self.session (sequential)
    store,              \* content of the stories file: the ids of the saved stories
    candidate,          \* the arguments of a Story(...) call
    story,              \* the outcome of that call
    listing,            \* the tr.athing items of a page handed to the parser
    parsed,             \* what parsing that page gave
    reply,              \* the last FileStorage / StoryAnalyzer call and its result
    pageCall            \* a scrape_page call of its own: the session and the responses it meets

\* what the steps of a scraper leave alone: the environment and the instance's
\* configuration, the stories file, and the Story under construction
fixed == <<variant, constructed, config, siteRules, robot_parser,
           robotsReachable, robotsRequests, sessionAgent, store,
           candidate, story, listing, parsed, reply, pageCall>>

vars == <<variant, constructed, config, siteRules, robot_parser,
          time_since_last, stopFlag, scraping, scrapeThread, ctl,
          ctlRaised, stopCalledPage, run, robotsReachable, robotsRequests,
          sessionAgent, store, candidate, story, listing, parsed, reply, pageCall>>

---------------------------------------------------------------------------
(* Bounds of the model *)

MaxPages == 2        \* num_pages ranges over 1..MaxPages
MaxRetriesCfg == 3   \* config.max_retries ranges over 0..MaxRetriesCfg
MaxRate == 2         \* config.rate_limit ranges over 0..MaxRate
MaxId == 1           \* story ids on a page range over 1..MaxId
MaxItems == 1        \* a page body holds at most MaxItems items

\* an elapsed time longer than every rate limit: last_request_time is 0 at
\* construction, so the first time_since_last is the whole clock value
LongAgo == MaxRate + 1

Runs == {"direct", "bg"}
Variants == {"sync", "async"}

PagePath == "/news"                    \* path of f"{base_url}news?p={page_num}"
RobotsChoices == {{}, {"/news"}}       \* what the site's robots.txt may disallow

Agents == {"ua1", "ua2"}               \* config.user_agents

---------------------------------------------------------------------------
(* Pure helpers *)

RECURSIVE Pow2(_)
Pow2(k) == IF k <= 0 THEN 1 ELSE 2 * Pow2(k - 1)

\* the listing items a page may hold: the container id, and whether the
\* item has its title anchor
Items == [id : 1..MaxId, anchor : BOOLEAN]

Bodies == UNION {[1..k -> Items] : k \in 0..MaxItems}

\* _parse_item: None (no story) when the title anchor is missing; a story
\* is represented by its story_id
ParseItem(item) == IF item.anchor THEN <<item.id>> ELSE <<>>

\* the loop over story_items of scrape_page
RECURSIVE ParsePage(_)
ParsePage(body) ==
    IF body = <<>> THEN <<>>
    ELSE ParseItem(Head(body)) \o ParsePage(Tail(body))

RECURSIVE Concat(_)
Concat(ss) == IF ss = <<>> THEN <<>> ELSE Head(ss) \o Concat(Tail(ss))

\* The locals of one scrape_stories call (pc, n, page, attempt, stories) and
\* what an observer of the run records:
\*   dur, slept   the time the current or last sleep asked for, and how much
\*                of it has passed
\*   nreq, total  requests sent for the current page, and by the call so far
\*   requested    page numbers requested so far
\*   sinceStart   time since the run's last request started (at most LongAgo)
\*   gap          <<time between the starts of the last two requests>>
\*   fetch        how the last _make_request call ended
\*   got, okPages per processed page the list scrape_page returned; the
\*                pages whose fetch succeeded
\*   stopSeen     the page at whose check the stop flag was observed
\*   result, value  how scrape_stories ended and the list it returned
\*   error        what the exception scrape_stories caught came from: "none",
\*                "fetch" (scrape_page raised), "callback"
\*   cb, calls    whether a progress_callback was passed; the first argument
\*                of each of its calls
\*   session      the aiohttp.ClientSession the call opened: "none", "open",
\*                "closed"
\*   agent, picks the User-Agent of the request in flight; the number of
\*                random.choice calls made for the current page's requests
\*   naps         the courtesy sleeps entered
\*   main, saved  whether the call was made by *_scrape_and_save, and
\*                whether that caller went on to save_stories
\*   onDone, doneCalls, doneRaised
\*                whether start_scraping was given a callback, the lists
\*                that callback was called with, whether it raised
IdleRun == [pc |-> "idle", n |-> 0, page |-> 0, attempt |-> 0,
            dur |-> 0, slept |-> 0, stories |-> <<>>, nreq |-> 0, total |-> 0,
            requested |-> {}, sinceStart |-> 0, gap |-> <<>>,
            fetch |-> "none", got |-> <<>>, okPages |-> {},
            stopSeen |-> 0, result |-> "none", value |-> <<>>,
            error |-> "none",
            cb |-> FALSE, calls |-> <<>>, session |-> "none",
            agent |-> "none", picks |-> 0, naps |-> 0,
            main |-> FALSE, saved |-> FALSE,
            onDone |-> FALSE, doneCalls |-> <<>>, doneRaised |-> FALSE]


---------------------------------------------------------------------------
(* Construction *)

\* a sequential constructor that goes on without the rules
LoadRobotsLenient(v, reachable, rules) ==
    IF v = "sync"
    THEN [ok |-> TRUE, rules |-> IF reachable THEN rules ELSE {}, requests |-> 1]
    ELSE [ok |-> TRUE, rules |-> {}, requests |-> 0]

\* HackerNewsScraper.__init__ calls _load_robots_txt: one session.get of
\* robots.txt, whose failure raises RobotsTxtError out of __init__.
\* AsyncHackerNewsScraper.__init__ calls the coroutine function
\* _load_robots_txt without awaiting it: its body never runs, no request is
\* made, the parser stays empty and construction always succeeds.
LoadRobots(v, reachable, rules) ==
    IF v = "sync"
    THEN [ok |-> reachable, rules |-> IF reachable THEN rules ELSE {},
          requests |-> 1]
    ELSE [ok |-> TRUE, rules |-> {}, requests |-> 0]

\* self.session.headers of the sequential scraper after __init__:
\* _rotate_user_agent runs once, after _load_robots_txt; the concurrent
\* scraper keeps no header
InitialAgent(v, ok, ua) == IF v = "sync" /\ ok THEN ua ELSE "none"

\* A URL is the sequence of its parts: scheme, "//", network location, path.
\* a URL with a network location, and one without
ExampleUrl == <<"https:", "//", "example.com", "/test">>
BareUrl == <<"not-a-url">>

\* no Story(...) call is under way
NoCandidate == [title |-> "t", url |-> ExampleUrl, points |-> 0,
                username |-> "a", comment_count |-> 0, story_id |-> "1",
                time |-> <<>>]

NoStory == [outcome |-> "none"]

\* no page is being parsed, no storage or analysis call was made
NoParsed == [outcome |-> "none"]

NoReply == [op |-> "none"]

\* no scrape_page call of its own is made
NoPageCall == [session |-> "none", outcomes |-> <<>>, broken |-> FALSE]

Init ==
    /\ variant \in Variants
    /\ config \in [rate_limit : 0..MaxRate, max_retries : 0..MaxRetriesCfg]
    /\ siteRules \in RobotsChoices
    /\ robotsReachable \in BOOLEAN
    /\ constructed = LoadRobots(variant, robotsReachable, siteRules).ok
    /\ robot_parser = LoadRobots(variant, robotsReachable, siteRules).rules
    /\ robotsRequests = LoadRobots(variant, robotsReachable, siteRules).requests
    /\ \E ua \in Agents : sessionAgent = InitialAgent(variant, constructed, ua)
    /\ time_since_last = LongAgo
    /\ stopFlag = FALSE
    /\ scraping = (variant = "async")
    /\ scrapeThread = "none"
    /\ ctl = "idle"
    /\ ctlRaised = FALSE
    /\ stopCalledPage = 0
    /\ run = [r \in Runs |-> IdleRun]
    /\ store = <<>>
    /\ candidate = NoCandidate
    /\ story = NoStory
    /\ listing = <<>>
    /\ parsed = NoParsed
    /\ reply = NoReply
    /\ pageCall = NoPageCall

---------------------------------------------------------------------------
(* scrape_stories, scrape_page and _make_request as steps of one run *)

Finished == {"done", "failed"}
Sleeping == {"ratesleep", "backoff", "courtesy"}
Waiting == Sleeping \cup {"inflight"}

Min(a, b) == IF a < b THEN a ELSE b

\* a concurrent run that begins with the second page
BeginRunAsyncSkipsFirst(v, n, cb, main) ==
    [IdleRun EXCEPT !.pc = "loop", !.n = n,
                    !.page = IF v = "async" THEN 2 ELSE 1,
                    !.cb = cb, !.main = main,
                    !.session = IF v = "async" THEN "open" ELSE "none"]

\* stories = [], page = 1: the state on entering the loop of scrape_stories;
\* the concurrent variant has entered async with aiohttp.ClientSession()
BeginRun(v, n, cb, main) ==
    [IdleRun EXCEPT !.pc = "loop", !.n = n, !.page = 1,
                    !.cb = cb, !.main = main,
                    !.session = IF v = "async" THEN "open" ELSE "none"]

\* a run that leaves its session open
LeaveSessionOpen(s) ==
    [s EXCEPT !.attempt = 0, !.nreq = 0, !.total = 0, !.dur = 0, !.slept = 0,
              !.sinceStart = 0, !.gap = <<>>, !.agent = "none", !.picks = 0]

\* scrape_stories is left, by return or by an exception: its loop variables
\* and timers are gone, and the async with block has closed the session
Leave(s) ==
    [s EXCEPT !.attempt = 0, !.nreq = 0, !.total = 0, !.dur = 0, !.slept = 0,
              !.sinceStart = 0, !.gap = <<>>, !.agent = "none", !.picks = 0,
              !.session = IF s.session = "open" THEN "closed" ELSE s.session]

\* a return of the last page's list only
ReturnLastPage(s) ==
    [Leave(s) EXCEPT !.pc = "done", !.result = "returned",
                     !.value = IF s.got = <<>> THEN <<>> ELSE s.got[Len(s.got)]]

\* return stories
ReturnStories(s) ==
    [Leave(s) EXCEPT !.pc = "done", !.result = "returned", !.value = s.stories]

\* raise ScrapingError / ScraperError out of scrape_stories: the caller gets
\* no list
RaiseError(s, cause) ==
    [Leave(s) EXCEPT !.pc = "failed", !.result = "raised", !.value = <<>>,
                     !.error = cause]

\* a stop that loses the records accumulated so far
StopObservedDropsRecords(s) ==
    [Leave(s) EXCEPT !.pc = "done", !.result = "returned", !.value = <<>>,
                     !.stopSeen = s.page]

\* if self._stop_flag: break, followed by return stories
StopObserved(s) == ReturnStories([s EXCEPT !.stopSeen = s.page])

\* page_stories = self.scrape_page(page) entered: the first iteration of
\* the retry loop of _make_request
EnterPage(s) ==
    [s EXCEPT !.pc = "attempt", !.attempt = 0, !.nreq = 0, !.fetch = "pending",
              !.dur = 0, !.slept = 0, !.picks = 0]

\* time.sleep(d) / await asyncio.sleep(d) entered
Sleep(s, pc, d) == [s EXCEPT !.pc = pc, !.dur = d, !.slept = 0]

\* a callback that is told the size of the last page
ReportProgressPageCount(s) ==
    IF s.cb THEN [s EXCEPT !.calls = Append(s.calls, Len(s.got[Len(s.got)]))]
    ELSE s

\* if progress_callback: progress_callback(stories_scraped, stats)
ReportProgress(s) ==
    IF s.cb THEN [s EXCEPT !.calls = Append(s.calls, Len(s.stories))]
    ELSE s

\* a courtesy sleep after every page
CourtesyDueAlways(page, num_pages) == TRUE

\* if page < num_pages: time.sleep(self.config.rate_limit)
CourtesyDue(page, num_pages) == page < num_pages

\* a loop body that answers an exception of the callback by returning the
\* records accumulated so far
AfterPageCallbackErrorReturns(s, page_stories, fetched, rate, cbRaises) ==
    LET acc == [s EXCEPT !.stories = s.stories \o page_stories,
                         !.got = Append(s.got, page_stories),
                         !.okPages = IF fetched THEN s.okPages \cup {s.page}
                                     ELSE s.okPages,
                         !.agent = "none"]
        told == ReportProgress(acc)
    IN IF s.cb /\ cbRaises
       THEN [ReturnStories(told) EXCEPT !.error = "callback"]
       ELSE IF CourtesyDue(s.page, s.n)
       THEN [Sleep(told, "courtesy", rate) EXCEPT !.naps = s.naps + 1]
       ELSE [told EXCEPT !.pc = "loop", !.page = s.page + 1]

\* the rest of the loop body after scrape_page returned page_stories:
\* extend the accumulator, call the progress callback (an exception it raises
\* is caught by scrape_stories, which raises its own error), then the
\* courtesy sleep unless it was the last page
AfterPage(s, page_stories, fetched, rate, cbRaises) ==
    LET acc == [s EXCEPT !.stories = s.stories \o page_stories,
                         !.got = Append(s.got, page_stories),
                         !.okPages = IF fetched THEN s.okPages \cup {s.page}
                                     ELSE s.okPages,
                         !.agent = "none"]
        told == ReportProgress(acc)
    IN IF s.cb /\ cbRaises THEN RaiseError(told, "callback")
       ELSE IF CourtesyDue(s.page, s.n)
       THEN [Sleep(told, "courtesy", rate) EXCEPT !.naps = s.naps + 1]
       ELSE [told EXCEPT !.pc = "loop", !.page = s.page + 1]

\* a failed page skipped in both variants
PageFailedSkips(v, s, rate, cbRaises) == AfterPage(s, <<>>, FALSE, rate, cbRaises)

\* a failed page fatal in both variants
PageFailedAborts(v, s, rate, cbRaises) == RaiseError(s, "fetch")

\* a scrape_page that returns [] when _make_request gave no response
PageFailedEmptyOnNone(v, s, rate, cbRaises) ==
    IF v = "sync" /\ s.fetch # "nothing" THEN RaiseError(s, "fetch")
    ELSE AfterPage(s, <<>>, FALSE, rate, cbRaises)

\* scrape_page when _make_request raised (or returned None):
\* the sequential scrape_page re-raises ScrapingError, which scrape_stories
\* wraps and raises; the concurrent scrape_page logs and returns []
PageFailed(v, s, rate, cbRaises) ==
    IF v = "sync" THEN RaiseError(s, "fetch")
    ELSE AfterPage(s, <<>>, FALSE, rate, cbRaises)

\* a rate limiter that never sleeps
RateDelayNone(since, rate) == 0

\* _respect_rate_limit: the time to sleep before the request
RateDelay(since, rate) == IF since < rate THEN rate - since ELSE 0

\* a constant backoff
BackoffDelayConstant(attempt) == 1

\* time.sleep(2 ** attempt)
BackoffDelay(attempt) == Pow2(attempt)

\* a retry loop with one iteration more
HasAttemptOneMore(attempt, max_retries) == attempt <= max_retries

\* for attempt in range(max_retries): whether the loop body runs again
HasAttempt(attempt, max_retries) == attempt < max_retries

\* if attempt == self.config.max_retries - 1: raise
IsFinalAttempt(attempt, max_retries) == attempt = max_retries - 1

\* self.last_request_time = time.time(), then session.get(url): the
\* sequential request carries the header of self.session, the concurrent one
\* the header random.choice just picked
SendRequest(v, s, header, ua) ==
    [s EXCEPT !.pc = "inflight", !.nreq = s.nreq + 1, !.total = s.total + 1,
              !.dur = 0, !.slept = 0,
              !.requested = s.requested \cup {s.page},
              !.gap = IF s.requested = {} THEN <<>> ELSE <<s.sinceStart>>,
              !.sinceStart = 0,
              !.agent = IF v = "sync" THEN header ELSE ua,
              !.picks = IF v = "sync" THEN s.picks ELSE s.picks + 1]

\* top of the for loop of scrape_stories
LoopTop(r) ==
    /\ run[r].pc = "loop"
    /\ run' = [run EXCEPT ![r] =
                 IF run[r].page > run[r].n THEN ReturnStories(run[r])
                 ELSE IF stopFlag THEN StopObserved(run[r])
                 ELSE EnterPage(run[r])]
    /\ UNCHANGED <<fixed,
                   time_since_last, stopFlag, scraping, scrapeThread, ctl,
                   ctlRaised, stopCalledPage>>

\* one iteration of the retry loop up to the request being sent, or up to
\* the sleep of _respect_rate_limit; with the range exhausted _make_request
\* falls off its end and returns None
AttemptStart(r) ==
    /\ run[r].pc = "attempt"
    /\ IF ~HasAttempt(run[r].attempt, config.max_retries)
       THEN /\ \E cbRaises \in BOOLEAN :
                  run' = [run EXCEPT ![r] =
                     PageFailed(variant, [run[r] EXCEPT !.fetch = "nothing"],
                                config.rate_limit, cbRaises)]
            /\ UNCHANGED time_since_last
       ELSE LET d == RateDelay(time_since_last, config.rate_limit)
            IN IF d > 0
               THEN /\ run' = [run EXCEPT ![r] = Sleep(run[r], "ratesleep", d)]
                    /\ UNCHANGED time_since_last
               ELSE /\ \E ua \in Agents :
                          run' = [run EXCEPT ![r] =
                             SendRequest(variant, run[r], sessionAgent, ua)]
                    /\ time_since_last' = 0
    /\ UNCHANGED <<fixed,
                   stopFlag, scraping, scrapeThread, ctl, ctlRaised,
                   stopCalledPage>>

\* the sleep of _respect_rate_limit is over: stamp the time, send
RateWake(r) ==
    /\ run[r].pc = "ratesleep"
    /\ run[r].slept >= run[r].dur
    /\ \E ua \in Agents :
          run' = [run EXCEPT ![r] = SendRequest(variant, run[r], sessionAgent, ua)]
    /\ time_since_last' = 0
    /\ UNCHANGED <<fixed,
                   stopFlag, scraping, scrapeThread, ctl, ctlRaised,
                   stopCalledPage>>

\* the request succeeds: _make_request returns, scrape_page parses the body
ResponseOk(r, bodies) ==
    /\ run[r].pc = "inflight"
    /\ \E body \in bodies, cbRaises \in BOOLEAN :
          run' = [run EXCEPT ![r] =
                    AfterPage([run[r] EXCEPT !.fetch = "body"],
                              ParsePage(body), TRUE, config.rate_limit,
                              cbRaises)]
    /\ UNCHANGED <<fixed,
                   time_since_last, stopFlag, scraping, scrapeThread, ctl,
                   ctlRaised, stopCalledPage>>

\* the request fails (connection error, timeout, HTTP status)
ResponseFail(r) ==
    /\ run[r].pc = "inflight"
    /\ \E cbRaises \in BOOLEAN :
          run' = [run EXCEPT ![r] =
                 IF IsFinalAttempt(run[r].attempt, config.max_retries)
                 THEN PageFailed(variant, [run[r] EXCEPT !.fetch = "raised"],
                                 config.rate_limit, cbRaises)
                 ELSE Sleep([run[r] EXCEPT !.agent = "none"], "backoff",
                            BackoffDelay(run[r].attempt))]
    /\ UNCHANGED <<fixed,
                   time_since_last, stopFlag, scraping, scrapeThread, ctl,
                   ctlRaised, stopCalledPage>>

\* the backoff sleep is over: next iteration of the retry loop
BackoffWake(r) ==
    /\ run[r].pc = "backoff"
    /\ run[r].slept >= run[r].dur
    /\ run' = [run EXCEPT ![r].pc = "attempt",
                          ![r].attempt = run[r].attempt + 1]
    /\ UNCHANGED <<fixed,
                   time_since_last, stopFlag, scraping, scrapeThread, ctl,
                   ctlRaised, stopCalledPage>>

\* the courtesy sleep between pages is over: next iteration of the page loop
CourtesyWake(r) ==
    /\ run[r].pc = "courtesy"
    /\ run[r].slept >= run[r].dur
    /\ run' = [run EXCEPT ![r].pc = "loop", ![r].page = run[r].page + 1]
    /\ UNCHANGED <<fixed,
                   time_since_last, stopFlag, scraping, scrapeThread, ctl,
                   ctlRaised, stopCalledPage>>

\* one unit of time passes for a run
Elapse(s) ==
    [s EXCEPT !.slept = IF s.pc \in Sleeping THEN Min(s.slept + 1, s.dur)
                        ELSE s.slept,
              !.sinceStart = IF s.pc \in Finished \cup {"idle"} \/ s.requested = {}
                             THEN s.sinceStart
                             ELSE Min(s.sinceStart + 1, LongAgo)]

\* time passes while some run sleeps or waits for a response
Tick ==
    /\ \E r \in Runs : run[r].pc \in Waiting
    /\ time_since_last' = Min(time_since_last + 1, LongAgo)
    /\ run' = [r \in Runs |-> Elapse(run[r])]
    /\ UNCHANGED <<fixed,
                   stopFlag, scraping, scrapeThread, ctl, ctlRaised,
                   stopCalledPage>>

---------------------------------------------------------------------------
(* The caller's operations *)

\* a caller that saves whatever way the run ended
SavePendingAnyEnd(s) == s.pc \in Finished /\ s.main /\ ~s.saved

\* *_scrape_and_save has its scrape_stories call behind it and save_stories
\* ahead: the call returned (an exception skips the rest of the try block)
SavePending(s) == s.pc = "done" /\ s.main /\ ~s.saved

\* a scrape_stories that clears the stop flag when it is called
ScrapeStoriesClearsStop(n, cb) ==
    /\ constructed
    /\ run["direct"].pc \in Finished \cup {"idle"}
    /\ ~SavePending(run["direct"])
    /\ run' = [run EXCEPT !["direct"] = BeginRun(variant, n, cb, FALSE)]
    /\ stopFlag' = FALSE
    /\ UNCHANGED <<fixed,
                   time_since_last, scraping, scrapeThread, ctl,
                   ctlRaised, stopCalledPage>>

\* scrape_stories(num_pages, progress_callback) called directly
ScrapeStories(n, cb) ==
    /\ constructed
    /\ run["direct"].pc \in Finished \cup {"idle"}
    /\ ~SavePending(run["direct"])
    /\ run' = [run EXCEPT !["direct"] = BeginRun(variant, n, cb, FALSE)]
    /\ UNCHANGED <<fixed,
                   time_since_last, stopFlag, scraping, scrapeThread, ctl,
                   ctlRaised, stopCalledPage>>

\* sync_scrape_and_save / async_scrape_and_save up to the call of
\* scrape_stories(num_pages): a scraper is constructed (its construction is
\* the one of Init: the site is the same), last_request_time = 0
ScrapeAndSave(n) ==
    /\ constructed
    /\ run["direct"].pc \in Finished \cup {"idle"}
    /\ ~SavePending(run["direct"])
    /\ run' = [run EXCEPT !["direct"] = BeginRun(variant, n, FALSE, TRUE)]
    /\ time_since_last' = LongAgo
    /\ UNCHANGED <<fixed, stopFlag, scraping, scrapeThread, ctl,
                   ctlRaised, stopCalledPage>>

\* scrape_stories returned to *_scrape_and_save: FileStorage().save_stories
\* opens the stories file for writing and dumps the list; when scrape_stories
\* raised, the except clause logs and re-raises and nothing is saved
SaveStories ==
    /\ SavePending(run["direct"])
    /\ store' = run["direct"].value
    /\ run' = [run EXCEPT !["direct"].saved = TRUE]
    /\ UNCHANGED <<variant, constructed, config, siteRules, robot_parser,
                   robotsReachable, robotsRequests, sessionAgent, candidate,
                   story, listing, parsed, reply, pageCall, time_since_last, stopFlag, scraping, scrapeThread,
                   ctl, ctlRaised, stopCalledPage>>

\* start_scraping(callback, num_pages): raises when _scraping is set, else
\* sets it and starts the thread (sequential) or awaits scrape_stories
\* (concurrent).  One accepted call at a time: a call accepted while the run
\* of an earlier one has not ended (stop_scraping cleared _scraping) is left
\* out.
StartScraping(n, cb) ==
    /\ constructed
    /\ ctl = "idle"
    /\ scrapeThread = "alive" => scraping
    /\ IF scraping
       THEN /\ ctlRaised' = TRUE
            /\ UNCHANGED <<scraping, scrapeThread, run>>
       ELSE /\ ctlRaised' = FALSE
            /\ scraping' = TRUE
            /\ scrapeThread' = "alive"
            /\ run' = [run EXCEPT !["bg"] =
                         [BeginRun(variant, n, FALSE, FALSE) EXCEPT !.onDone = cb]]
    /\ UNCHANGED <<fixed, time_since_last, stopFlag, ctl, stopCalledPage>>

\* a callback that is called however scrape_stories ended
CompletionAlways(s, cbRaises) ==
    IF s.onDone
    THEN [s EXCEPT !.doneCalls = Append(s.doneCalls, s.value),
                   !.doneRaised = cbRaises]
    ELSE s

\* stories = self.scrape_stories(num_pages); if callback: callback(stories):
\* an exception of scrape_stories skips the callback
Completion(s, cbRaises) ==
    IF s.result = "returned" /\ s.onDone
    THEN [s EXCEPT !.doneCalls = Append(s.doneCalls, s.value),
                   !.doneRaised = cbRaises]
    ELSE s

\* the end of start_scraping's try block and its finally clause:
\* scrape_stories returned (the callback is called and may raise) or raised;
\* _scraping is cleared in every case
ThreadFinish ==
    /\ scrapeThread = "alive"
    /\ run["bg"].pc \in Finished
    /\ \E cbRaises \in BOOLEAN :
          run' = [run EXCEPT !["bg"] = Completion(run["bg"], cbRaises)]
    /\ scraping' = FALSE
    /\ scrapeThread' = "finished"
    /\ UNCHANGED <<fixed,
                   time_since_last, stopFlag, ctl, ctlRaised,
                   stopCalledPage>>

\* a stop_scraping that clears _scraping and leaves the stop flag alone
StopScrapingClearsOnly ==
    /\ constructed
    /\ ctl = "idle"
    /\ scraping' = FALSE
    /\ UNCHANGED <<fixed, stopFlag, ctl, stopCalledPage,
                   time_since_last, scrapeThread, ctlRaised, run>>

\* stop_scraping up to the join (sequential), or whole (concurrent)
StopScraping ==
    /\ constructed
    /\ ctl = "idle"
    /\ scraping' = FALSE
    /\ IF variant = "sync" /\ scrapeThread # "none"
       THEN /\ ctl' = "joining"
            /\ UNCHANGED stopFlag
       ELSE /\ stopFlag' = TRUE
            /\ UNCHANGED ctl
    /\ stopCalledPage' = IF scrapeThread = "alive" /\ stopCalledPage = 0
                         THEN run["bg"].page ELSE stopCalledPage
    /\ UNCHANGED <<fixed,
                   time_since_last, scrapeThread, ctlRaised, run>>

\* self._scrape_thread.join() returned: self._stop_flag = True
StopJoined ==
    /\ ctl = "joining"
    /\ scrapeThread = "finished"
    /\ stopFlag' = TRUE
    /\ ctl' = "idle"
    /\ UNCHANGED <<fixed,
                   time_since_last, scraping, scrapeThread, ctlRaised, stopCalledPage, run>>

\* One scraper instance of either variant whose scrape_stories is called
\* directly, one run at a time, while another thread may call stop_scraping.
Next ==
    \/ \E n \in 1..MaxPages, cb \in BOOLEAN : ScrapeStories(n, cb)
    \/ StopScraping
    \/ LoopTop("direct")
    \/ AttemptStart("direct")
    \/ RateWake("direct")
    \/ ResponseOk("direct", Bodies)
    \/ ResponseFail("direct")
    \/ BackoffWake("direct")
    \/ CourtesyWake("direct")
    \/ Tick

Spec == Init /\ [][Next]_vars

---------------------------------------------------------------------------
(* The sequential scraper with its background thread *)

BgRetries == 2      \* config.max_retries ranges over 1..BgRetries
BgRate == 1         \* config.rate_limit ranges over 0..BgRate
BgDirectPages == 1  \* num_pages of a scrape_stories call made beside the thread

\* a page holds no item or one well-formed item
BgBodies == {<<>>, <<[id |-> 1, anchor |-> TRUE]>>}

InitBackground ==
    /\ variant = "sync"
    /\ config \in [rate_limit : 0..BgRate, max_retries : 1..BgRetries]
    /\ siteRules = {}
    /\ robotsReachable = TRUE
    /\ constructed = LoadRobots(variant, robotsReachable, siteRules).ok
    /\ robot_parser = LoadRobots(variant, robotsReachable, siteRules).rules
    /\ robotsRequests = LoadRobots(variant, robotsReachable, siteRules).requests
    /\ sessionAgent = InitialAgent(variant, constructed, "ua1")
    /\ time_since_last = LongAgo
    /\ stopFlag = FALSE
    /\ scraping = FALSE
    /\ scrapeThread = "none"
    /\ ctl = "idle"
    /\ ctlRaised = FALSE
    /\ stopCalledPage = 0
    /\ run = [r \in Runs |-> IdleRun]
    /\ store = <<>>
    /\ candidate = NoCandidate
    /\ story = NoStory
    /\ listing = <<>>
    /\ parsed = NoParsed
    /\ reply = NoReply
    /\ pageCall = NoPageCall

\* stop_scraping and scrape_stories called in any order while the background
\* thread runs; start_scraping is called, without callback, when no
\* background thread is alive
NextBackground ==
    \/ \E n \in 1..BgDirectPages : ScrapeStories(n, FALSE)
    \/ \E n \in 1..MaxPages : scrapeThread # "alive" /\ StartScraping(n, FALSE)
    \/ ThreadFinish
    \/ StopScraping
    \/ StopJoined
    \/ \E r \in Runs : LoopTop(r)
    \/ \E r \in Runs : AttemptStart(r)
    \/ \E r \in Runs : RateWake(r)
    \/ \E r \in Runs : ResponseOk(r, BgBodies)
    \/ \E r \in Runs : ResponseFail(r)
    \/ \E r \in Runs : BackoffWake(r)
    \/ \E r \in Runs : CourtesyWake(r)
    \/ Tick

SpecBackground == InitBackground /\ [][NextBackground]_vars

---------------------------------------------------------------------------
(* One run after another on a scheduler that lets the run go on: a thread or
   task that can take a step takes one, time passes while it sleeps or waits,
   and every request ends, with a response or a failure (the timeout) *)

InitLive ==
    /\ variant \in Variants
    /\ config \in [rate_limit : 0..BgRate, max_retries : 0..BgRetries]
    /\ siteRules = {}
    /\ robotsReachable = TRUE
    /\ constructed = LoadRobots(variant, robotsReachable, siteRules).ok
    /\ robot_parser = LoadRobots(variant, robotsReachable, siteRules).rules
    /\ robotsRequests = LoadRobots(variant, robotsReachable, siteRules).requests
    /\ sessionAgent = InitialAgent(variant, constructed, "ua1")
    /\ time_since_last = LongAgo
    /\ stopFlag = FALSE
    /\ scraping = (variant = "async")
    /\ scrapeThread = "none"
    /\ ctl = "idle"
    /\ ctlRaised = FALSE
    /\ stopCalledPage = 0
    /\ run = [r \in Runs |-> IdleRun]
    /\ store = <<>>
    /\ candidate = NoCandidate
    /\ story = NoStory
    /\ listing = <<>>
    /\ parsed = NoParsed
    /\ reply = NoReply
    /\ pageCall = NoPageCall

\* the steps of the run and of time
RunStep ==
    \/ LoopTop("direct")
    \/ AttemptStart("direct")
    \/ RateWake("direct")
    \/ ResponseOk("direct", Bodies)
    \/ ResponseFail("direct")
    \/ BackoffWake("direct")
    \/ CourtesyWake("direct")
    \/ Tick

NextLive ==
    \/ \E n \in 1..MaxPages, cb \in BOOLEAN : ScrapeStories(n, cb)
    \/ StopScraping
    \/ RunStep

SpecLive == InitLive /\ [][NextLive]_vars /\ WF_vars(RunStep)

---------------------------------------------------------------------------
(* start_scraping and stop_scraping of either variant, with a completion
   callback *)

InitStart ==
    /\ variant \in Variants
    /\ config \in [rate_limit : 0..BgRate, max_retries : 1..BgRetries]
    /\ siteRules = {}
    /\ robotsReachable = TRUE
    /\ constructed = LoadRobots(variant, robotsReachable, siteRules).ok
    /\ robot_parser = LoadRobots(variant, robotsReachable, siteRules).rules
    /\ robotsRequests = LoadRobots(variant, robotsReachable, siteRules).requests
    /\ sessionAgent = InitialAgent(variant, constructed, "ua1")
    /\ time_since_last = LongAgo
    /\ stopFlag = FALSE
    /\ scraping = (variant = "async")
    /\ scrapeThread = "none"
    /\ ctl = "idle"
    /\ ctlRaised = FALSE
    /\ stopCalledPage = 0
    /\ run = [r \in Runs |-> IdleRun]
    /\ store = <<>>
    /\ candidate = NoCandidate
    /\ story = NoStory
    /\ listing = <<>>
    /\ parsed = NoParsed
    /\ reply = NoReply
    /\ pageCall = NoPageCall

NextStart ==
    \/ \E n \in 1..MaxPages, cb \in BOOLEAN : StartScraping(n, cb)
    \/ ThreadFinish
    \/ StopScraping
    \/ StopJoined
    \/ LoopTop("bg")
    \/ AttemptStart("bg")
    \/ RateWake("bg")
    \/ ResponseOk("bg", BgBodies)
    \/ ResponseFail("bg")
    \/ BackoffWake("bg")
    \/ CourtesyWake("bg")
    \/ Tick

SpecStart == InitStart /\ [][NextStart]_vars

---------------------------------------------------------------------------
(* *_scrape_and_save of main.py: one run after another, each followed by
   save_stories when it returned *)

InitMain ==
    /\ variant \in Variants
    /\ config \in [rate_limit : 0..MaxRate, max_retries : 1..BgRetries]
    /\ siteRules = {}
    /\ robotsReachable \in BOOLEAN
    /\ constructed = LoadRobots(variant, robotsReachable, siteRules).ok
    /\ robot_parser = LoadRobots(variant, robotsReachable, siteRules).rules
    /\ robotsRequests = LoadRobots(variant, robotsReachable, siteRules).requests
    /\ sessionAgent = InitialAgent(variant, constructed, "ua1")
    /\ time_since_last = LongAgo
    /\ stopFlag = FALSE
    /\ scraping = (variant = "async")
    /\ scrapeThread = "none"
    /\ ctl = "idle"
    /\ ctlRaised = FALSE
    /\ stopCalledPage = 0
    /\ run = [r \in Runs |-> IdleRun]
    /\ store = <<>>
    /\ candidate = NoCandidate
    /\ story = NoStory
    /\ listing = <<>>
    /\ parsed = NoParsed
    /\ reply = NoReply
    /\ pageCall = NoPageCall

NextMain ==
    \/ \E n \in 1..MaxPages : ScrapeAndSave(n)
    \/ SaveStories
    \/ LoopTop("direct")
    \/ AttemptStart("direct")
    \/ RateWake("direct")
    \/ ResponseOk("direct", Bodies)
    \/ ResponseFail("direct")
    \/ BackoffWake("direct")
    \/ CourtesyWake("direct")
    \/ Tick

SpecMain == InitMain /\ [][NextMain]_vars

---------------------------------------------------------------------------
(* Story (models/story.py) *)

MaxPoints == 1      \* points and comment_count range over -MaxPoints..MaxPoints
MaxDay == 2         \* a datetime is <<day, hour>>, day in 1..MaxDay
MaxHour == 1        \* and hour in 0..MaxHour

\* the datetime values; <<>> is None
DateTimes == {<<d, h>> : d \in 1..MaxDay, h \in 0..MaxHour}

\* the arguments of Story(...); "" is the empty string and <<>> a missing url
\* (None or ""), time is not validated
Candidates ==
    [title : {"", "t"}, url : {<<>>, ExampleUrl, BareUrl},
     points : -MaxPoints..MaxPoints,
     username : {"", "a"}, comment_count : -MaxPoints..MaxPoints,
     story_id : {"", "1"}, time : DateTimes \cup {<<>>}]

\* a clamp that lets negative numbers through
ClampKeeps(k) == k

\* if self.points < 0: self.points = 0 (the same for comment_count)
Clamp(k) == IF k < 0 THEN 0 ELSE k

\* f"https://news.ycombinator.com/item?id={self.story_id}"
DefaultUrl(story_id) ==
    <<"https:", "//", "news.ycombinator.com", "/item?id=", story_id>>

\* a validation that only looks at the title
PostInitTitleOnly(c) ==
    IF c.title = "" THEN [outcome |-> "ValueError"]
    ELSE [outcome |-> "story",
          title |-> c.title,
          url |-> IF c.url = <<>> THEN DefaultUrl(c.story_id) ELSE c.url,
          points |-> Clamp(c.points),
          username |-> IF c.username = "" THEN "unknown" ELSE c.username,
          comment_count |-> Clamp(c.comment_count),
          story_id |-> c.story_id,
          time |-> c.time]

\* Story.__post_init__, in the order of its statements: the title check, the
\* defaults of url, points, username and comment_count, the story_id check
PostInit(c) ==
    IF c.title = "" THEN [outcome |-> "ValueError"]
    ELSE IF c.story_id = "" THEN [outcome |-> "ValueError"]
    ELSE [outcome |-> "story",
          title |-> c.title,
          url |-> IF c.url = <<>> THEN DefaultUrl(c.story_id) ELSE c.url,
          points |-> Clamp(c.points),
          username |-> IF c.username = "" THEN "unknown" ELSE c.username,
          comment_count |-> Clamp(c.comment_count),
          story_id |-> c.story_id,
          time |-> c.time]

\* a network location that is whatever the URL begins with
NetlocFirstPart(url) == IF url = <<>> THEN "" ELSE url[1]

\* urlparse(url).netloc: what follows "//", itself at the start or after the
\* scheme; "" when there is no "//"
Netloc(url) ==
    IF Len(url) >= 3 /\ url[2] = "//" THEN url[3]
    ELSE IF Len(url) >= 2 /\ url[1] = "//" THEN url[2]
    ELSE ""

\* Story.domain
Domain(s) == IF s.url = <<>> THEN "None" ELSE Netloc(s.url)

\* what Story actions leave alone: the scraper and the stories file
scraperVars == <<variant, constructed, config, siteRules, robot_parser,
                 time_since_last, stopFlag, scraping, scrapeThread, ctl,
                 ctlRaised, stopCalledPage, run, robotsReachable,
                 robotsRequests, sessionAgent, store, listing, parsed, reply, pageCall>>

\* Story(**c): the dataclass __init__ assigns the fields and calls
\* __post_init__
ConstructStory ==
    /\ story.outcome = "none"
    /\ story' = PostInit(candidate)
    /\ UNCHANGED <<candidate, scraperVars>>

\* the caller turns to another candidate
NextCandidate ==
    /\ story.outcome # "none"
    /\ candidate' \in Candidates
    /\ story' = NoStory
    /\ UNCHANGED scraperVars

InitStory ==
    /\ variant = "sync"
    /\ config = [rate_limit |-> 0, max_retries |-> 1]
    /\ siteRules = {}
    /\ robotsReachable = TRUE
    /\ constructed = LoadRobots(variant, robotsReachable, siteRules).ok
    /\ robot_parser = LoadRobots(variant, robotsReachable, siteRules).rules
    /\ robotsRequests = LoadRobots(variant, robotsReachable, siteRules).requests
    /\ sessionAgent = InitialAgent(variant, constructed, "ua1")
    /\ time_since_last = LongAgo
    /\ stopFlag = FALSE
    /\ scraping = FALSE
    /\ scrapeThread = "none"
    /\ ctl = "idle"
    /\ ctlRaised = FALSE
    /\ stopCalledPage = 0
    /\ run = [r \in Runs |-> IdleRun]
    /\ store = <<>>
    /\ candidate \in Candidates
    /\ story = NoStory
    /\ listing = <<>>
    /\ parsed = NoParsed
    /\ reply = NoReply
    /\ pageCall = NoPageCall

NextStory == ConstructStory \/ NextCandidate

SpecStory == InitStory /\ [][NextStory]_vars

---------------------------------------------------------------------------
(* scrape_page and _parse_item on the markup of a page, the same statements
   in both variants.  An item is a tr.athing row with what the selectors of
   _parse_item find for it:
     anchor            whether '.titleline > a' exists
     title, href       its stripped text and its href
     id                the id attribute of the row ("" when missing)
     subtext           whether the next row exists and has a '.subtext'
     score             <<>> or <<the words of the '.score' text>>
     user              <<>> or <<the text of the '.hnuser' link>>
     links             the words of each link of the subtext, in order *)

MaxListing == 4     \* a page holds at most MaxListing items

\* the texts of '.score'
ScoreTexts == {<<>>, <<<<"5", "points">>>>, <<<<"many", "points">>>>}

\* the links of a subtext
LinkLists ==
    {<<>>,
     <<<<"hide">>>>,
     <<<<"hide">>, <<"3", "comments">>>>,
     <<<<"hide">>, <<"discuss">>>>,
     <<<<"3", "Comments">>>>,
     <<<<"Comments">>>>,
     <<<<"commenter">>, <<"3", "comments">>>>}

\* row: the item has a following table row; subtext: that row holds the
\* '.subtext' block
AllItems ==
    {item \in [anchor : BOOLEAN, title : {"", "t"}, href : {ExampleUrl},
               id : {"", "1"}, row : BOOLEAN, subtext : BOOLEAN,
               score : ScoreTexts, user : {<<>>, <<"a">>}, links : LinkLists] :
        item.subtext => item.row}

\* items for pages of several items: complete ones, one without title
\* anchor, one with an empty title
CompleteItem(id) ==
    [anchor |-> TRUE, title |-> "t", href |-> ExampleUrl, id |-> id,
     row |-> TRUE, subtext |-> TRUE, score |-> <<<<"5", "points">>>>, user |-> <<"a">>,
     links |-> <<<<"hide">>, <<"3", "comments">>>>]

PageItems ==
    {CompleteItem("1"), CompleteItem("2"),
     [CompleteItem("3") EXCEPT !.anchor = FALSE],
     [CompleteItem("4") EXCEPT !.title = ""]}

Listings ==
    {<<item>> : item \in AllItems}
    \cup UNION {[1..k -> PageItems] : k \in 0..MaxListing}

\* int(word): <<the number>>, or <<>> for ValueError
IntValue(word) ==
    IF word = "3" THEN <<3>> ELSE IF word = "5" THEN <<5>> ELSE <<>>

\* word.lower()
Lower(word) ==
    IF word = "Comments" THEN "comments" ELSE word

\* 'comment' in link.text.lower()
MentionsComment(link) ==
    \E k \in 1..Len(link) : Lower(link[k]) \in {"comments", "commenter"}

\* a count read from the first link, whatever its text
CommentCountFirstLink(links) ==
    IF links = <<>> \/ Head(links) = <<>> \/ IntValue(Head(links)[1]) = <<>>
    THEN 0
    ELSE IntValue(Head(links)[1])[1]

\* the first link whose text mentions 'comment'; its leading word as a
\* number, 0 when there is no such link or the word is not a number
RECURSIVE CommentCount(_)
CommentCount(links) ==
    IF links = <<>> THEN 0
    ELSE IF MentionsComment(Head(links))
    THEN IF Head(links) = <<>> \/ IntValue(Head(links)[1]) = <<>> THEN 0
         ELSE IntValue(Head(links)[1])[1]
    ELSE CommentCount(Tail(links))

\* datetime.now(), or the time parsed from the '.age' element
ScrapeTime == <<1, 0>>

\* a title anchor found on every item
HasTitleAnchorAlways(item) == TRUE

\* title_elem = item.select_one('.titleline > a')
HasTitleAnchor(item) == item.anchor

\* a _parse_item that reads an unreadable score as 0
ParseListingItemScoreDefault(item) ==
    IF ~HasTitleAnchor(item) \/ ~item.row \/ ~item.subtext THEN <<>>
    ELSE LET made == PostInit(
                 [title |-> item.title, url |-> item.href,
                  points |-> IF item.score = <<>>
                                \/ IntValue(item.score[1][1]) = <<>> THEN 0
                             ELSE IntValue(item.score[1][1])[1],
                  username |-> IF item.user = <<>> THEN "unknown"
                               ELSE item.user[1],
                  comment_count |-> CommentCount(item.links),
                  story_id |-> item.id,
                  time |-> ScrapeTime])
         IN IF made.outcome = "story" THEN <<made>> ELSE <<>>

\* _parse_item: <<the Story>>, or <<>> for None: no title anchor, no
\* subtext, or an exception caught by its except clause (AttributeError of
\* find_next_sibling('tr') returning None, ValueError of int() of the score
\* text, ValueError of Story)
ParseListingItem(item) ==
    IF ~HasTitleAnchor(item) THEN <<>>
    ELSE IF ~item.row THEN <<>>
    ELSE IF ~item.subtext THEN <<>>
    ELSE IF item.score # <<>> /\ IntValue(item.score[1][1]) = <<>> THEN <<>>
    ELSE LET made == PostInit(
                 [title |-> item.title, url |-> item.href,
                  points |-> IF item.score = <<>> THEN 0
                             ELSE IntValue(item.score[1][1])[1],
                  username |-> IF item.user = <<>> THEN "unknown"
                               ELSE item.user[1],
                  comment_count |-> CommentCount(item.links),
                  story_id |-> item.id,
                  time |-> ScrapeTime])
         IN IF made.outcome = "story" THEN <<made>> ELSE <<>>

\* a scrape_page that gives up at the first item without story
RECURSIVE ScrapePageItemsAborting(_)
ScrapePageItemsAborting(items) ==
    IF items = <<>> THEN [outcome |-> "returned", stories |-> <<>>]
    ELSE IF ParseListingItem(Head(items)) = <<>> THEN [outcome |-> "raised"]
    ELSE LET rest == ScrapePageItemsAborting(Tail(items))
         IN IF rest.outcome = "raised" THEN rest
            ELSE [outcome |-> "returned",
                  stories |-> ParseListingItem(Head(items)) \o rest.stories]

\* the loop of scrape_page over story_items: the stories of the items that
\* gave one, in order; an item without story is logged and skipped
RECURSIVE ScrapePageItems(_)
ScrapePageItems(items) ==
    IF items = <<>> THEN [outcome |-> "returned", stories |-> <<>>]
    ELSE [outcome |-> "returned",
          stories |-> ParseListingItem(Head(items))
                      \o ScrapePageItems(Tail(items)).stories]

\* what parsing leaves alone
parseFrame == <<variant, constructed, config, siteRules, robot_parser,
                time_since_last, stopFlag, scraping, scrapeThread, ctl,
                ctlRaised, stopCalledPage, run, robotsReachable,
                robotsRequests, sessionAgent, store, candidate, story,
                reply, pageCall>>

\* scrape_page from the parsed markup on
ParseListing ==
    /\ parsed.outcome = "none"
    /\ parsed' = ScrapePageItems(listing)
    /\ UNCHANGED <<listing, parseFrame>>

\* another page
NextListing ==
    /\ parsed.outcome # "none"
    /\ listing' \in Listings
    /\ parsed' = NoParsed
    /\ UNCHANGED parseFrame

InitParse ==
    /\ variant \in Variants
    /\ config = [rate_limit |-> 0, max_retries |-> 1]
    /\ siteRules = {}
    /\ robotsReachable = TRUE
    /\ constructed = LoadRobots(variant, robotsReachable, siteRules).ok
    /\ robot_parser = LoadRobots(variant, robotsReachable, siteRules).rules
    /\ robotsRequests = LoadRobots(variant, robotsReachable, siteRules).requests
    /\ sessionAgent = InitialAgent(variant, constructed, "ua1")
    /\ time_since_last = LongAgo
    /\ stopFlag = FALSE
    /\ scraping = (variant = "async")
    /\ scrapeThread = "none"
    /\ ctl = "idle"
    /\ ctlRaised = FALSE
    /\ stopCalledPage = 0
    /\ run = [r \in Runs |-> IdleRun]
    /\ store = <<>>
    /\ candidate = NoCandidate
    /\ story = NoStory
    /\ listing \in Listings
    /\ parsed = NoParsed
    /\ reply = NoReply
    /\ pageCall = NoPageCall

NextParse == ParseListing \/ NextListing

SpecParse == InitParse /\ [][NextParse]_vars

---------------------------------------------------------------------------
(* scrape_page called on its own: _make_request, the parser, the loop over
   the items *)

MaxTries == 2       \* config.max_retries ranges over 0..MaxTries

\* self.session of the concurrent scraper: None after __init__, the session
\* of a scrape_stories call under way, that session closed after the call
Sessions == {"none", "open", "closed"}

\* outcomes[k]: how the k-th request ends, if it is made; broken: whether
\* BeautifulSoup raises on the body
PageCalls ==
    [session : Sessions, outcomes : [1..MaxTries -> {"text", "error"}],
     broken : BOOLEAN]

PageListings == UNION {[1..k -> PageItems] : k \in 0..2}

\* _make_request from the iteration 'attempt' of its retry loop on: "body"
\* (a response), "raised" (the final attempt failed), "nothing" (None: the
\* range is exhausted).  The concurrent variant's self.session.get raises
\* when self.session is None or closed, inside the try block; the
\* sequential variant's session is made by __init__.
RECURSIVE MakeRequest(_, _, _, _, _)
MakeRequest(v, session, max_retries, outcomes, attempt) ==
    IF ~HasAttempt(attempt, max_retries) THEN "nothing"
    ELSE IF (v = "async" /\ session # "open") \/ outcomes[attempt + 1] = "error"
    THEN IF IsFinalAttempt(attempt, max_retries) THEN "raised"
         ELSE MakeRequest(v, session, max_retries, outcomes, attempt + 1)
    ELSE "body"

\* a concurrent scrape_page that raises like the sequential one
ScrapePageRaising(v, call, max_retries, items) ==
    IF MakeRequest(v, call.session, max_retries, call.outcomes, 0) = "body"
       /\ ~call.broken
    THEN ScrapePageItems(items)
    ELSE [outcome |-> "raised"]

\* scrape_page: the items of the response parsed one by one; any exception
\* before or in the parser (None has no .text, BeautifulSoup(None)) is
\* re-raised by the sequential variant and answered with [] by the
\* concurrent one
ScrapePage(v, call, max_retries, items) ==
    IF MakeRequest(v, call.session, max_retries, call.outcomes, 0) = "body"
       /\ ~call.broken
    THEN ScrapePageItems(items)
    ELSE IF v = "sync" THEN [outcome |-> "raised"]
    ELSE [outcome |-> "returned", stories |-> <<>>]

\* what a scrape_page call of its own leaves alone
pageFrame == <<variant, constructed, config, siteRules, robot_parser,
               time_since_last, stopFlag, scraping, scrapeThread, ctl,
               ctlRaised, stopCalledPage, run, robotsReachable,
               robotsRequests, sessionAgent, store, candidate, story,
               reply>>

\* scraper.scrape_page(page_num)
ScrapePageCall ==
    /\ parsed.outcome = "none"
    /\ parsed' = ScrapePage(variant, pageCall, config.max_retries, listing)
    /\ UNCHANGED <<listing, pageCall, pageFrame>>

\* another call: another page, another state of the session and the network
NextPageCall ==
    /\ parsed.outcome # "none"
    /\ listing' \in PageListings
    /\ pageCall' \in PageCalls
    /\ parsed' = NoParsed
    /\ UNCHANGED pageFrame

InitPage ==
    /\ variant \in Variants
    /\ config \in [rate_limit : {0}, max_retries : 0..MaxTries]
    /\ siteRules = {}
    /\ robotsReachable = TRUE
    /\ constructed = LoadRobots(variant, robotsReachable, siteRules).ok
    /\ robot_parser = LoadRobots(variant, robotsReachable, siteRules).rules
    /\ robotsRequests = LoadRobots(variant, robotsReachable, siteRules).requests
    /\ sessionAgent = InitialAgent(variant, constructed, "ua1")
    /\ time_since_last = LongAgo
    /\ stopFlag = FALSE
    /\ scraping = (variant = "async")
    /\ scrapeThread = "none"
    /\ ctl = "idle"
    /\ ctlRaised = FALSE
    /\ stopCalledPage = 0
    /\ run = [r \in Runs |-> IdleRun]
    /\ store = <<>>
    /\ candidate = NoCandidate
    /\ story = NoStory
    /\ listing \in PageListings
    /\ parsed = NoParsed
    /\ reply = NoReply
    /\ pageCall \in PageCalls

NextPage == ScrapePageCall \/ NextPageCall

SpecPage == InitPage /\ [][NextPage]_vars

---------------------------------------------------------------------------
(* FileStorage (core/storage.py) and StoryAnalyzer (core/analysis.py).
   The stories file holds the JSON list json.dump wrote: a sequence of
   dictionaries of strings, numbers and nulls, which json.load gives back as
   written.  A missing file and a file holding [] both load as []. *)

MaxBatch == 2       \* a list given to save_stories/append_stories holds at most MaxBatch stories
MaxStore == 3       \* the stories file holds at most MaxStore records

\* the Story objects handed to the storage
StoreCandidates ==
    [title : {"t"}, url : {<<>>}, points : {0}, username : {"a"},
     comment_count : {0}, story_id : {"1", "2"},
     time : {<<1, 0>>, <<1, MaxHour>>, <<>>}]

ValidStories == {PostInit(c) : c \in StoreCandidates}

Batches == UNION {[1..k -> ValidStories] : k \in 0..MaxBatch}

\* datetime.isoformat(): the text "<day>T<hour>", as the sequence of its parts
IsoFormat(time) == <<time[1], "T", time[2]>>

\* datetime.fromisoformat(text)
FromIsoFormat(text) == <<text[1], text[3]>>

\* a to_dict that drops the time
ToDictNoTime(s) ==
    [title |-> s.title, url |-> s.url, points |-> s.points,
     username |-> s.username, comment_count |-> s.comment_count,
     story_id |-> s.story_id, time |-> <<>>, domain |-> Domain(s)]

\* Story.to_dict
ToDict(s) ==
    [title |-> s.title, url |-> s.url, points |-> s.points,
     username |-> s.username, comment_count |-> s.comment_count,
     story_id |-> s.story_id,
     time |-> IF s.time # <<>> THEN IsoFormat(s.time) ELSE <<>>,
     domain |-> Domain(s)]

\* Story.from_dict: domain is dropped, time is parsed when present, and
\* cls(**data) validates again
FromDict(data) ==
    PostInit([title |-> data.title, url |-> data.url, points |-> data.points,
              username |-> data.username,
              comment_count |-> data.comment_count,
              story_id |-> data.story_id,
              time |-> IF data.time # <<>> THEN FromIsoFormat(data.time)
                       ELSE <<>>])

\* save_stories: what is written to the file, in place of what it held
SaveFile(stories) == [i \in 1..Len(stories) |-> ToDict(stories[i])]

\* load_stories: [] when the file does not exist; StorageError when a record
\* is refused by Story
LoadFile(file) ==
    IF \E i \in 1..Len(file) : FromDict(file[i]).outcome # "story"
    THEN [outcome |-> "StorageError"]
    ELSE [outcome |-> "ok", value |-> [i \in 1..Len(file) |-> FromDict(file[i])]]

\* append_stories: existing_stories + stories, saved
AppendFile(file, stories) == SaveFile(LoadFile(file).value \o stories)

\* the first story of the list with the id: the for loop of get_story_by_id;
\* <<>> is None
RECURSIVE FirstWithId(_, _)
FirstWithId(stories, story_id) ==
    IF stories = <<>> THEN <<>>
    ELSE IF Head(stories).story_id = story_id THEN <<Head(stories)>>
    ELSE FirstWithId(Tail(stories), story_id)

\* get_story_by_id
GetStoryById(file, story_id) ==
    IF LoadFile(file).outcome # "ok" THEN [outcome |-> "StorageError"]
    ELSE [outcome |-> "ok", value |-> FirstWithId(LoadFile(file).value, story_id)]

\* whether a datetime is later than another
Later(a, b) == a[1] > b[1] \/ (a[1] = b[1] /\ a[2] > b[2])

\* sorted(stories, key=lambda x: x[attr], reverse=True): a stable insertion
\* of the head into the sorted tail
RECURSIVE SortedNewestFirst(_, _)
SortedNewestFirst(stories, attr) ==
    IF stories = <<>> THEN <<>>
    ELSE LET rest == SortedNewestFirst(Tail(stories), attr)
             h == Head(stories)
             before == SelectSeq(rest, LAMBDA s : Later(s[attr], h[attr]))
             after == SelectSeq(rest, LAMBDA s : ~Later(s[attr], h[attr]))
         IN before \o <<h>> \o after

\* get_latest_stories: the sort key reads x.timestamp of every story; a Story
\* has no such attribute, the AttributeError is raised as StorageError
GetLatestStories(file, limit) ==
    LET stories == LoadFile(file).value
    IN IF LoadFile(file).outcome # "ok" THEN [outcome |-> "StorageError"]
       ELSE IF \E i \in 1..Len(stories) : "timestamp" \notin DOMAIN stories[i]
       THEN [outcome |-> "StorageError"]
       ELSE [outcome |-> "ok",
             value |-> SubSeq(SortedNewestFirst(stories, "timestamp"), 1,
                              Min(limit, Len(stories)))]

\* the columns of pd.DataFrame([story.to_dict() for story in stories])
Columns(stories) == UNION {DOMAIN ToDict(stories[i]) : i \in 1..Len(stories)}

\* analyze_post_popularity_by_time: {} without a 'timestamp' column, else the
\* number of rows per hour that occurs
AnalyzePostPopularityByTime(stories) ==
    IF "timestamp" \notin Columns(stories) THEN <<>>
    ELSE LET rows == [i \in 1..Len(stories) |-> ToDict(stories[i])]
             hours == {rows[i]["timestamp"][3] : i \in 1..Len(rows)}
         IN [h \in hours |->
                Cardinality({i \in 1..Len(rows) : rows[i]["timestamp"][3] = h})]

\* what the storage and analysis calls leave alone
storeFrame == <<variant, constructed, config, siteRules, robot_parser,
                time_since_last, stopFlag, scraping, scrapeThread, ctl,
                ctlRaised, stopCalledPage, run, robotsReachable,
                robotsRequests, sessionAgent, candidate, story, listing,
                parsed, pageCall>>

\* storage.save_stories(stories)
StorageSave(stories) ==
    /\ store' = SaveFile(stories)
    /\ reply' = [op |-> "save", arg |-> stories]
    /\ UNCHANGED storeFrame

\* storage.append_stories(stories)
StorageAppend(stories) ==
    /\ Len(store) + Len(stories) <= MaxStore
    /\ LoadFile(store).outcome = "ok"
    /\ store' = AppendFile(store, stories)
    /\ reply' = [op |-> "append", arg |-> stories]
    /\ UNCHANGED storeFrame

\* storage.clear_storage(): the file is unlinked
StorageClear ==
    /\ store' = <<>>
    /\ reply' = [op |-> "clear"]
    /\ UNCHANGED storeFrame

\* storage.load_stories()
StorageLoad ==
    /\ reply' = [op |-> "load", result |-> LoadFile(store)]
    /\ UNCHANGED <<store, storeFrame>>

\* storage.get_story_by_id(story_id)
StorageGetById(story_id) ==
    /\ reply' = [op |-> "get", arg |-> story_id,
                 result |-> GetStoryById(store, story_id)]
    /\ UNCHANGED <<store, storeFrame>>

\* storage.get_latest_stories(limit)
StorageGetLatest(limit) ==
    /\ reply' = [op |-> "latest", arg |-> limit,
                 result |-> GetLatestStories(store, limit)]
    /\ UNCHANGED <<store, storeFrame>>

\* StoryAnalyzer(storage.load_stories()).analyze_post_popularity_by_time()
AnalyzeByTime ==
    /\ LoadFile(store).outcome = "ok"
    /\ reply' = [op |-> "hours", arg |-> LoadFile(store).value,
                 result |-> AnalyzePostPopularityByTime(LoadFile(store).value)]
    /\ UNCHANGED <<store, storeFrame>>

InitStore ==
    /\ variant = "sync"
    /\ config = [rate_limit |-> 0, max_retries |-> 1]
    /\ siteRules = {}
    /\ robotsReachable = TRUE
    /\ constructed = LoadRobots(variant, robotsReachable, siteRules).ok
    /\ robot_parser = LoadRobots(variant, robotsReachable, siteRules).rules
    /\ robotsRequests = LoadRobots(variant, robotsReachable, siteRules).requests
    /\ sessionAgent = InitialAgent(variant, constructed, "ua1")
    /\ time_since_last = LongAgo
    /\ stopFlag = FALSE
    /\ scraping = FALSE
    /\ scrapeThread = "none"
    /\ ctl = "idle"
    /\ ctlRaised = FALSE
    /\ stopCalledPage = 0
    /\ run = [r \in Runs |-> IdleRun]
    /\ store = <<>>
    /\ candidate = NoCandidate
    /\ story = NoStory
    /\ listing = <<>>
    /\ parsed = NoParsed
    /\ reply = NoReply
    /\ pageCall = NoPageCall

NextStore ==
    \/ \E stories \in Batches : StorageSave(stories)
    \/ \E stories \in Batches : StorageAppend(stories)
    \/ StorageClear
    \/ StorageLoad
    \/ \E story_id \in {"1", "2"} : StorageGetById(story_id)
    \/ \E limit \in 0..MaxStore : StorageGetLatest(limit)
    \/ AnalyzeByTime

SpecStore == InitStore /\ [][NextStore]_vars

---------------------------------------------------------------------------
(* Properties *)

D == run["direct"]

\* the records of the pages whose fetch succeeded, in page order
OkRecords(s) ==
    Concat([p \in 1..Len(s.got) |-> IF p \in s.okPages THEN s.got[p] ELSE <<>>])

\* whether robots.txt rules allow fetching a path
IsAllowed(rules, path) == path \notin rules

NoDuplicates(seq) ==
    \A i, j \in DOMAIN seq : i # j => seq[i] # seq[j]

\* C1: sequential variant: when the fetch of page p has failed after all
\* retries, scrape_stories has raised, the caller got no records (also none
\* of pages 1..p-1) and no page after p was or will be requested (the run is
\* over).
C1_SeqFetchFailureAborts ==
    variant = "sync" =>
        \A r \in Runs :
            run[r].fetch = "raised" =>
                /\ run[r].pc = "failed"
                /\ run[r].result = "raised"
                /\ run[r].value = <<>>
                /\ \A q \in run[r].requested : q <= run[r].page

\* page 2 failed after page 1 had yielded records
C1_Witness ==
    /\ variant = "sync"
    /\ D.fetch = "raised"
    /\ D.page = 2
    /\ Len(D.stories) > 0
    /\ D.result = "raised"

\* C2: concurrent variant: a page whose fetch failed contributes no record,
\* the run goes on to the next page and never raises because of it, and a run
\* that was not stopped processes all its pages and returns exactly the
\* records of the pages whose fetch succeeded.
C2_AsyncFetchFailureSkipsPage ==
    variant = "async" =>
        \A r \in Runs :
            /\ run[r].error # "fetch"
            /\ run[r].result = "raised" => run[r].error = "callback"
            /\ \A p \in 1..Len(run[r].got) :
                  p \notin run[r].okPages => run[r].got[p] = <<>>
            /\ run[r].pc = "done" =>
                  /\ run[r].value = OkRecords(run[r])
                  /\ run[r].stopSeen = 0 => Len(run[r].got) = run[r].n

\* page 1 succeeded with records, page 2 failed, the run completed
C2_Witness ==
    /\ variant = "async"
    /\ D.pc = "done"
    /\ D.n = 2
    /\ D.okPages = {1}
    /\ Len(D.got) = 2
    /\ Len(D.value) = MaxItems
    /\ D.fetch = "raised"

\* C3: the list a run returns never holds two records with the same id.
C3_UniqueIds ==
    \A r \in Runs : run[r].pc = "done" => NoDuplicates(run[r].value)

\* the step that leaves the check of the stop flag with the flag set
C4_StopStep(r) ==
    (/\ run[r].pc = "loop"
     /\ run[r].page <= run[r].n
     /\ stopFlag
     /\ run'[r].pc # "loop")
    => /\ run'[r].pc = "done"
       /\ run'[r].result = "returned"
       /\ run'[r].value = Concat(run[r].got)
       /\ Len(run[r].got) = run[r].page - 1
       /\ run'[r].requested = run[r].requested
       /\ \A q \in run[r].requested : q < run[r].page
       /\ run[r].page = 1 => run'[r].value = <<>> /\ run'[r].requested = {}

\* C4: both variants: when the check at the top of the iteration for page p
\* finds the stop flag set, scrape_stories returns (does not raise) the
\* records accumulated from pages 1..p-1 without requesting page p or a
\* later page; a stop seen before the first page gives an empty list and no
\* request.
C4_StopReturnsAccumulated == [][\A r \in Runs : C4_StopStep(r)]_vars

\* the stop was seen at the check for page 2, after page 1 yielded records
C4_Witness ==
    /\ D.stopSeen = 2
    /\ D.pc = "done"
    /\ Len(D.value) > 0
    /\ D.requested = {1}

\* C5: sequential variant: once stop_scraping has been called while the
\* background run was at page p, the run requests no page after p.
C5_StopAtNextBoundary ==
    stopCalledPage > 0 =>
        \A q \in run["bg"].requested : q <= stopCalledPage

\* C6: within a run the starts of two consecutive requests (retries
\* included) are at least rate_limit apart.
C6_RequestSpacing ==
    \A r \in Runs :
        run[r].gap # <<>> => run[r].gap[1] >= config.rate_limit

\* a retry sent after a backoff shorter than the rate limit
C6_Witness ==
    /\ config.rate_limit = 2
    /\ D.pc = "inflight"
    /\ D.attempt = 1
    /\ D.gap = <<2>>

\* C7: sequential variant: at most one page fetch is in flight at any time.
C7_OneFetchInFlight ==
    Cardinality({r \in Runs : run[r].pc = "inflight"}) <= 1

\* C8: no page is requested whose URL the loaded robots.txt rules disallow.
C8_RobotsHonored ==
    \A r \in Runs :
        run[r].requested # {} => IsAllowed(robot_parser, PagePath)

\* the retry loop of one run: what holds in every state, and of every step
C9_State(r) ==
    /\ run[r].nreq <= config.max_retries
    /\ run[r].pc = "backoff" =>
          /\ run[r].attempt < config.max_retries - 1
          /\ run[r].dur = 2 ^ run[r].attempt
    /\ (run[r].pc = "attempt" /\ run[r].attempt > 0) =>
          run[r].slept >= 2 ^ (run[r].attempt - 1)
    /\ run[r].pc \in {"attempt", "ratesleep", "inflight", "backoff"} =>
          run[r].page \notin run[r].okPages

C9_Step(r) ==
    /\ (/\ run[r].pc = "inflight"
        /\ run[r].attempt = config.max_retries - 1
        /\ run'[r].pc # "inflight"
        /\ run'[r].fetch # "body")
       => run'[r].fetch = "raised" /\ run'[r].pc # "backoff"
    /\ (run[r].pc = "inflight" /\ run'[r].fetch = "body")
       => run'[r].pc \in {"courtesy", "loop"} \/ run'[r].error = "callback"

\* C9: _make_request sends at most max_retries requests for a URL; after
\* failed attempt k < max_retries - 1 it sleeps 2^k and the next attempt
\* begins only when that time has passed; the final failed attempt raises
\* at once, without a backoff; no request follows a success.
C9_RetryBackoff ==
    [](\A r \in Runs : C9_State(r)) /\ [][\A r \in Runs : C9_Step(r)]_vars

\* the third attempt begins after the second backoff of 2
C9_Witness ==
    /\ config.max_retries = 3
    /\ D.pc = "attempt"
    /\ D.attempt = 2
    /\ D.slept = 2
    /\ D.nreq = 2

\* C10: a call of _make_request ends with a body or with the fetch error.
C10_BodyOrError ==
    \A r \in Runs : run[r].fetch # "nothing"

\* C11: sequential variant: construction makes one robots.txt request; when
\* robots.txt cannot be retrieved construction fails (RobotsTxtError), so no
\* run of the instance ever starts and no page is requested; when it can be
\* retrieved construction succeeds after exactly one robots.txt request.
C11_SeqPolicyLoad ==
    variant = "sync" =>
        /\ constructed = robotsReachable
        /\ robotsRequests = 1
        /\ ~robotsReachable =>
              \A r \in Runs : run[r].pc = "idle" /\ run[r].requested = {}
        /\ robotsReachable => robot_parser = siteRules

\* robots.txt could not be retrieved and there is no instance
C11_Witness ==
    /\ variant = "sync"
    /\ ~robotsReachable
    /\ ~constructed
    /\ robotsRequests = 1

\* C12: concurrent variant: construction performs the robots.txt retrieval,
\* so that once a page has been requested the parser holds the site's rules
\* when the retrieval succeeded and no rule when it failed.
C12_AsyncPolicyLoaded ==
    variant = "async" =>
        /\ robotsRequests = 1
        /\ \A r \in Runs :
              run[r].requested # {} =>
                  robot_parser = IF robotsReachable THEN siteRules ELSE {}

\* C13: concurrent variant: the session scrape_stories opened is closed once
\* the run has ended, whether it returned (all pages done, stop observed) or
\* raised (a failing progress callback), and it is open whenever a page
\* request of the run is in flight.
C13_SessionReleased ==
    variant = "async" =>
        \A r \in Runs :
            /\ run[r].pc \in Finished => run[r].session = "closed"
            /\ run[r].pc \notin Finished \cup {"idle"} => run[r].session = "open"

\* a run ended by an exception of the progress callback after a request
C13_Witness ==
    /\ variant = "async"
    /\ D.cb
    /\ D.error = "callback"
    /\ D.requested # {}
    /\ D.session = "closed"

\* the number of pages a run processes: all, or those before the page at
\* whose check the stop flag was seen
PagesDone(s) == IF s.stopSeen = 0 THEN s.n ELSE s.stopSeen - 1

\* the size of the accumulator after each of the pages in got
Cumulative(got) == [i \in 1..Len(got) |-> Len(Concat(SubSeq(got, 1, i)))]

\* C14: what a run that returned shows its caller is, when every page fetch
\* succeeded, a function of the page count, the page contents, the page at
\* which the stop flag was seen and the callback alone, the same for the
\* sequential and the concurrent variant: the pages requested are 1..k in
\* this order (while page p is requested, the pages requested so far are
\* 1..p), the callback arguments are the cumulative counts, the list
\* returned is the pages' records in page order.
C14_VariantsAgree ==
    \A r \in Runs :
        /\ (run[r].pc = "inflight" /\ run[r].okPages = 1..Len(run[r].got)) =>
            run[r].requested = 1..run[r].page
        /\ (run[r].pc = "done" /\ run[r].okPages = 1..Len(run[r].got)) =>
            /\ run[r].requested = 1..PagesDone(run[r])
            /\ Len(run[r].got) = PagesDone(run[r])
            /\ run[r].value = Concat(run[r].got)
            /\ run[r].calls = IF run[r].cb THEN Cumulative(run[r].got) ELSE <<>>

\* a concurrent run with a callback, stopped at the check for page 2
C14_Witness ==
    /\ variant = "async"
    /\ D.pc = "done"
    /\ D.cb
    /\ D.stopSeen = 2
    /\ D.okPages = {1}
    /\ Len(D.value) > 0

\* C15: both variants: the progress callback, when given, has been called
\* once for each processed page and for no other; the count it is given is
\* the number of records accumulated so far, so the counts never decrease and
\* the last one is the length of the returned list.
C15_ProgressCalls ==
    \A r \in Runs :
        /\ Len(run[r].calls) = IF run[r].cb THEN Len(run[r].got) ELSE 0
        /\ \A i \in 1..Len(run[r].calls) :
              run[r].calls[i] = Cumulative(run[r].got)[i]
        /\ \A i, j \in 1..Len(run[r].calls) :
              i <= j => run[r].calls[i] <= run[r].calls[j]
        /\ (run[r].pc = "done" /\ run[r].calls # <<>>) =>
              run[r].calls[Len(run[r].calls)] = Len(run[r].value)

\* two pages with a record each: the callback was told 1, then 2
C15_Witness ==
    /\ D.cb
    /\ D.pc = "done"
    /\ Len(D.calls) = 2
    /\ D.calls[1] < D.calls[2]
    /\ D.calls[2] = Len(D.value)

\* C16: sequential variant, run made by sync_scrape_and_save: the stories
\* file changes only in a step that follows a returned run (save_stories), so
\* a run that failed on a page fetch is never saved and leaves the file as
\* it was before the run.
C16_FailedRunNotSaved ==
    /\ [](variant = "sync" /\ D.main /\ D.error = "fetch" => ~D.saved)
    /\ [][variant = "sync" /\ store' # store =>
             /\ D.result = "returned"
             /\ D.pc = "done"
             /\ run'["direct"].saved]_vars

\* a run failed on a page fetch after an earlier run had been saved
C16_Witness ==
    /\ variant = "sync"
    /\ D.main
    /\ D.fetch = "raised"
    /\ D.error = "fetch"
    /\ ~D.saved
    /\ store # <<>>

\* C17: both variants: a courtesy sleep, of rate_limit, is entered only after
\* a page p < N; after each processed page p < N the run has slept p times,
\* and a run that completed its N pages has slept exactly N - 1 times.
C17_CourtesySleeps ==
    \A r \in Runs :
        /\ run[r].pc = "courtesy" =>
              /\ run[r].page < run[r].n
              /\ run[r].dur = config.rate_limit
              /\ run[r].naps = run[r].page
        /\ run[r].pc \in {"loop", "attempt", "ratesleep", "inflight", "backoff"} =>
              run[r].naps = Min(run[r].page, run[r].n) - 1
        /\ (run[r].pc = "done" /\ run[r].stopSeen = 0) =>
              run[r].naps = run[r].n - 1

\* a run over two pages completed after one courtesy sleep
C17_Witness ==
    /\ D.pc = "done"
    /\ D.stopSeen = 0
    /\ D.n = 2
    /\ Len(D.got) = 2
    /\ D.naps = 1

\* C18: both variants: every request carries an identity of the pool that
\* was chosen for this request: as many choices as requests.
C18_IdentityPerRequest ==
    \A r \in Runs :
        run[r].pc = "inflight" =>
            /\ run[r].agent \in Agents
            /\ run[r].picks = run[r].nreq

\* C19: Story(...) raises ValueError exactly when the title or the id is
\* empty, and a Story that was constructed has a non-empty title and id.
C19_StoryValidation ==
    story.outcome # "none" =>
        /\ story.outcome = "ValueError" <=>
              (candidate.title = "" \/ candidate.story_id = "")
        /\ story.outcome = "story" =>
              /\ story.title = candidate.title
              /\ story.story_id = candidate.story_id
              /\ story.title # ""
              /\ story.story_id # ""

\* a candidate with a title and no id was refused
C19_Witness ==
    /\ story.outcome = "ValueError"
    /\ candidate.title # ""
    /\ candidate.story_id = ""

\* C20: a constructed Story has points >= 0 and comment_count >= 0: a
\* negative input has become 0, another input is unchanged.
C20_NonNegativeCounts ==
    story.outcome = "story" =>
        /\ story.points >= 0
        /\ story.comment_count >= 0
        /\ story.points = IF candidate.points < 0 THEN 0 ELSE candidate.points
        /\ story.comment_count =
              IF candidate.comment_count < 0 THEN 0 ELSE candidate.comment_count

\* a Story constructed from negative points and a positive comment count
C20_Witness ==
    /\ story.outcome = "story"
    /\ candidate.points < 0
    /\ candidate.comment_count > 0
    /\ story.points = 0
    /\ story.comment_count = candidate.comment_count

\* C21: a Story constructed from a missing url has as url the item link
\* holding its id and as domain news.ycombinator.com; the domain of a url
\* without network location is the empty string.
C21_DefaultUrlAndDomain ==
    story.outcome = "story" =>
        /\ candidate.url = <<>> =>
              /\ story.url = DefaultUrl(candidate.story_id)
              /\ story.url[Len(story.url)] = candidate.story_id
              /\ Domain(story) = "news.ycombinator.com"
        /\ candidate.url = BareUrl => Domain(story) = ""
        /\ candidate.url = ExampleUrl => Domain(story) = "example.com"

\* a Story was constructed without url
C21_Witness ==
    /\ story.outcome = "story"
    /\ candidate.url = <<>>
    /\ candidate.story_id # ""
    /\ Domain(story) = "news.ycombinator.com"

\* C22: load_stories right after save_stories(stories) returns, whatever the
\* file held before, a list equal to stories: same length, same order, every
\* field of every record (time included) equal; the domain of a loaded
\* record is the one derived from its url.
C22_SaveLoadRoundTrip ==
    [][(reply.op = "save" /\ reply'.op = "load") =>
          /\ reply'.result.outcome = "ok"
          /\ reply'.result.value = reply.arg
          /\ \A i \in 1..Len(reply.arg) :
                /\ "domain" \notin DOMAIN reply'.result.value[i]
                /\ Domain(reply'.result.value[i]) = Netloc(reply.arg[i].url)]_vars

\* two different stories, the first with a posting time, were loaded back
C22_Witness ==
    /\ reply.op = "load"
    /\ reply.result.outcome = "ok"
    /\ Len(reply.result.value) = 2
    /\ reply.result.value[1].time # <<>>
    /\ reply.result.value[1] # reply.result.value[2]
    /\ store = SaveFile(reply.result.value)

RECURSIVE Reverse(_)
Reverse(seq) == IF seq = <<>> THEN <<>> ELSE Append(Reverse(Tail(seq)), Head(seq))

\* C28: the stories file holds at most one record per id, and
\* get_story_by_id returns the record written last for the id (None when
\* there is none).
C28_KeyedById ==
    /\ \A i, j \in 1..Len(store) :
          i # j => store[i].story_id # store[j].story_id
    /\ reply.op = "get" =>
          /\ reply.result.outcome = "ok"
          /\ reply.result.value =
                FirstWithId(Reverse(LoadFile(store).value), reply.arg)

\* the records of a list posted in hour h
PostedInHour(stories, h) ==
    Cardinality({i \in 1..Len(stories) : stories[i].time[2] = h})

\* C29: for a non-empty collection of stories with posting times,
\* analyze_post_popularity_by_time maps each hour to the number of stories
\* posted in that hour.
C29_HourHistogram ==
    (/\ reply.op = "hours"
     /\ reply.arg # <<>>
     /\ \A i \in 1..Len(reply.arg) : reply.arg[i].time # <<>>) =>
        \A h \in 0..MaxHour :
            PostedInHour(reply.arg, h) =
                IF h \in DOMAIN reply.result THEN reply.result[h] ELSE 0

\* C30: get_latest_stories(limit) returns a list of at most limit stored
\* stories, newest first.
C30_LatestStories ==
    reply.op = "latest" =>
        /\ reply.result.outcome = "ok"
        /\ Len(reply.result.value) <= reply.arg
        /\ \A i, j \in 1..Len(reply.result.value) :
              i < j => ~Later(reply.result.value[j].time,
                              reply.result.value[i].time)

\* an item that has all a record needs
Sound(item) ==
    /\ item.anchor
    /\ item.title # ""
    /\ item.id # ""
    /\ item.row
    /\ item.subtext
    /\ item.score # <<<<"many", "points">>>>

\* C23: both variants: scrape_page returns normally whatever its items are;
\* an item that fails parsing or validation (empty title, missing id, no
\* metadata block, unreadable score) gives no record, and the records of the
\* page are those of its other items, one each, in page order.
C23_BadItemSkipped ==
    parsed.outcome # "none" =>
        /\ parsed.outcome = "returned"
        /\ \A k \in 1..Len(parsed.stories) :
              parsed.stories[k].title # "" /\ parsed.stories[k].story_id # ""
        /\ LET sound == SelectSeq(listing, Sound)
           IN /\ Len(parsed.stories) = Len(sound)
              /\ \A k \in 1..Len(sound) :
                    parsed.stories[k].story_id = sound[k].id

\* an item with an empty title between two complete items
C23_Witness ==
    /\ parsed.outcome = "returned"
    /\ Len(listing) = 3
    /\ listing[1].id = "1"
    /\ listing[2].anchor /\ listing[2].title = ""
    /\ listing[3].id = "2"
    /\ Len(parsed.stories) = 2

C25_ParseDefaults ==
    (parsed.outcome # "none" /\ Len(listing) = 1 /\ Sound(listing[1])) =>
        LET item == listing[1]
            mentions == {k \in 1..Len(item.links) :
                            \E w \in 1..Len(item.links[k]) :
                               item.links[k][w] \in {"comments", "Comments", "commenter"}}
            first == CHOOSE k \in mentions : \A m \in mentions : k <= m
        IN /\ Len(parsed.stories) = 1
           /\ item.score = <<>> => parsed.stories[1].points = 0
           /\ item.score = <<<<"5", "points">>>> => parsed.stories[1].points = 5
           /\ item.user = <<>> => parsed.stories[1].username = "unknown"
           /\ item.user = <<"a">> => parsed.stories[1].username = "a"
           /\ mentions = {} => parsed.stories[1].comment_count = 0
           /\ mentions # {} =>
                 parsed.stories[1].comment_count =
                    IF item.links[first][1] = "3" THEN 3 ELSE 0

\* a record with all three defaults
C25_Witness ==
    /\ parsed.outcome = "returned"
    /\ Len(listing) = 1
    /\ listing[1].score = <<>>
    /\ listing[1].user = <<>>
    /\ listing[1].links = <<<<"hide">>, <<"discuss">>>>
    /\ Len(parsed.stories) = 1
    /\ parsed.stories[1].points = 0
    /\ parsed.stories[1].username = "unknown"
    /\ parsed.stories[1].comment_count = 0

RECURSIVE SumLen(_)
SumLen(ss) == IF ss = <<>> THEN 0 ELSE Len(Head(ss)) + SumLen(Tail(ss))

\* C26: scrape_page is called for page p when exactly the pages 1..p-1 have
\* returned their lists (once each, in increasing order), and a run of N
\* pages that was not stopped and met no failure has had the N pages return
\* and returns their lists concatenated in page order, as many records as
\* the pages had together.
C26_PagesInOrder ==
    \A r \in Runs :
        /\ run[r].pc \in {"attempt", "ratesleep", "inflight", "backoff"} =>
              /\ Len(run[r].got) = run[r].page - 1
              /\ run[r].page \in 1..run[r].n
        /\ (/\ run[r].pc = "done"
            /\ run[r].stopSeen = 0
            /\ run[r].okPages = 1..Len(run[r].got)) =>
              /\ Len(run[r].got) = run[r].n
              /\ run[r].okPages = 1..run[r].n
              /\ run[r].value = Concat(run[r].got)
              /\ Len(run[r].value) = SumLen(run[r].got)

\* a run over two pages with a record each returned the two records
C26_Witness ==
    /\ D.pc = "done"
    /\ D.stopSeen = 0
    /\ D.n = 2
    /\ D.okPages = {1, 2}
    /\ Len(D.got[1]) = 1
    /\ Len(D.got[2]) = 1
    /\ Len(D.value) = 2

\* C27: sequential scrape_page: each call ends with one outcome of its one
\* _make_request call; when that is a response the parsed list is returned
\* (empty for a page without items), when it is an exception or no response
\* (None) scrape_page raises and no list, not even an empty one, is added
\* for the page.
C27_ScrapePageOutcome ==
    /\ [](variant = "sync" =>
            \A r \in Runs :
               /\ run[r].fetch \in {"nothing", "raised"} =>
                     /\ run[r].pc = "failed"
                     /\ run[r].error = "fetch"
                     /\ Len(run[r].got) = run[r].page - 1
               /\ (run[r].fetch = "body" /\ run[r].pc \in Waiting \cup {"loop"}) =>
                     run[r].okPages = 1..Len(run[r].got))
    /\ [][variant = "sync" =>
            \A r \in Runs :
               run'[r].fetch # run[r].fetch =>
                  \/ run'[r].fetch \in {"pending", "none"}
                  \/ run[r].fetch = "pending"]_vars

\* _make_request returned None and scrape_page raised
C27_Witness ==
    /\ variant = "sync"
    /\ D.fetch = "nothing"
    /\ D.pc = "failed"
    /\ D.error = "fetch"
    /\ D.got = <<>>

\* C37: both variants: of an item with title anchor, title and id, no record
\* is made when it has no following row, when the following row has no
\* metadata block, or when its score element does not begin with a number;
\* the same item with a readable (or no) score and a comment link that does
\* not begin with a number yields one record, with comment count 0.
C37_DroppedNotDefaulted ==
    (/\ parsed.outcome # "none"
     /\ Len(listing) = 1
     /\ listing[1].anchor
     /\ listing[1].title # ""
     /\ listing[1].id # "") =>
        LET item == listing[1]
            unreadable == item.score = <<<<"many", "points">>>>
        IN /\ parsed.outcome = "returned"
           /\ (~item.row \/ ~item.subtext \/ unreadable) =>
                 parsed.stories = <<>>
           /\ (/\ item.row
               /\ item.subtext
               /\ ~unreadable
               /\ item.links \in {<<<<"Comments">>>>,
                                  <<<<"commenter">>, <<"3", "comments">>>>}) =>
                 /\ Len(parsed.stories) = 1
                 /\ parsed.stories[1].story_id = item.id
                 /\ parsed.stories[1].comment_count = 0

\* an item whose score reads 'many points' was dropped although its comment
\* link is readable
C37_Witness ==
    /\ parsed.outcome = "returned"
    /\ Len(listing) = 1
    /\ listing[1].anchor
    /\ listing[1].title = "t"
    /\ listing[1].id = "1"
    /\ listing[1].subtext
    /\ listing[1].score = <<<<"many", "points">>>>
    /\ listing[1].links = <<<<"hide">>, <<"3", "comments">>>>
    /\ parsed.stories = <<>>

\* C35: both variants: when the progress callback raises after page p,
\* scrape_stories raises; the callback had been called for page p, whose
\* list had been added to the accumulated records, none of which the caller
\* gets; no page after p was requested, and none is requested afterwards.
C35_CallbackErrorAborts ==
    /\ [](\A r \in Runs :
            run[r].error = "callback" =>
               /\ run[r].pc = "failed"
               /\ run[r].result = "raised"
               /\ run[r].value = <<>>
               /\ run[r].cb
               /\ run[r].page = Len(run[r].got)
               /\ Len(run[r].calls) = Len(run[r].got)
               /\ run[r].stories = Concat(run[r].got)
               /\ \A q \in run[r].requested : q <= run[r].page)
    /\ [][\A r \in Runs :
            (run[r].error = "callback" /\ run'[r].error = "callback") =>
               run'[r].requested = run[r].requested]_vars

\* the concurrent variant: the callback raised after the first of two pages,
\* which had yielded a record
C35_Witness ==
    /\ variant = "async"
    /\ D.error = "callback"
    /\ D.pc = "failed"
    /\ D.n = 2
    /\ D.requested = {1}
    /\ Len(D.stories) = 1
    /\ D.value = <<>>

\* C31: both variants: the stop flag, once set, stays set; a scrape_stories
\* call made while it is set starts at page 1 with nothing requested, and
\* its first step from there is to return the empty list, still with
\* nothing requested, whatever its page count.
C31_StopFlagSticky ==
    /\ [][stopFlag => stopFlag']_vars
    /\ [][\A r \in Runs :
            /\ (/\ stopFlag
                /\ run[r].pc \in Finished \cup {"idle"}
                /\ run'[r].pc = "loop") =>
                  /\ run'[r].page = 1
                  /\ run'[r].requested = {}
                  /\ run'[r].got = <<>>
            /\ (/\ stopFlag
                /\ run[r].pc = "loop"
                /\ run[r].page = 1
                /\ run'[r] # run[r]) =>
                  /\ run'[r].pc = "done"
                  /\ run'[r].result = "returned"
                  /\ run'[r].value = <<>>
                  /\ run'[r].requested = {}]_vars

\* after a run that made a request, the flag was set and a call for
\* MaxPages pages returned the empty list without a request
C31_Witness ==
    /\ stopFlag
    /\ time_since_last < LongAgo
    /\ D.pc = "done"
    /\ D.n = MaxPages
    /\ D.stopSeen = 1
    /\ D.value = <<>>
    /\ D.requested = {}

\* whether a scrape_page call meets a failure: no attempt is made, no
\* attempt gets a response, or the parser raises
PageCallFails(v, call, max_retries) ==
    \/ max_retries = 0
    \/ v = "async" /\ call.session # "open"
    \/ \A k \in 1..max_retries : call.outcomes[k] = "error"
    \/ call.broken

\* C34: the concurrent scrape_page always returns a list: the list a page
\* without items gives whenever the call meets a failure (no attempt, no
\* open session, every attempt failed, the parser raised), and the stories
\* of the page's items otherwise.
C34_AsyncPageNeverRaises ==
    (variant = "async" /\ parsed.outcome # "none") =>
        /\ parsed.outcome = "returned"
        /\ PageCallFails(variant, pageCall, config.max_retries) =>
              /\ parsed.stories = <<>>
              /\ parsed = ScrapePageItems(<<>>)
        /\ ~PageCallFails(variant, pageCall, config.max_retries) =>
              parsed = ScrapePageItems(listing)

\* called before any scrape_stories, with responses and a page of two
\* complete items available: the empty list
C34_Witness ==
    /\ variant = "async"
    /\ pageCall.session = "none"
    /\ pageCall.outcomes = [k \in 1..MaxTries |-> "text"]
    /\ ~pageCall.broken
    /\ config.max_retries = MaxTries
    /\ listing = <<CompleteItem("1"), CompleteItem("2")>>
    /\ parsed = [outcome |-> "returned", stories |-> <<>>]

B == run["bg"]

C33_ThreadEndClearsScraping ==
    /\ [](variant = "sync" =>
            /\ scrapeThread = "finished" => (~scraping /\ B.pc \in Finished)
            /\ Len(B.doneCalls) <= 1
            /\ B.doneCalls # <<>> =>
                  /\ B.onDone
                  /\ scrapeThread = "finished"
                  /\ B.result = "returned"
                  /\ B.doneCalls[1] = B.value
            /\ B.result = "raised" => B.doneCalls = <<>>
            /\ B.doneRaised => B.doneCalls # <<>>)
    /\ [][variant = "sync" =>
            /\ (scrapeThread = "alive" /\ scrapeThread' # "alive") =>
                  (scrapeThread' = "finished" /\ ~scraping')
            /\ (scrapeThread = "finished" /\ ctlRaised' # ctlRaised) =>
                  (~ctlRaised' /\ scrapeThread' = "alive" /\ scraping')]_vars

\* the callback raised in a thread whose run had returned a record
C33_Witness ==
    /\ variant = "sync"
    /\ scrapeThread = "finished"
    /\ ~scraping
    /\ B.doneRaised
    /\ Len(B.doneCalls) = 1
    /\ Len(B.doneCalls[1]) = 1

Running == {"loop", "attempt", "ratesleep", "inflight", "backoff", "courtesy"}

\* C36: both variants: a scrape_stories call under way eventually returns or
\* raises; each page takes at most max_retries requests, so that a call that
\* has reached page p has sent at most p * max_retries requests, and never
\* more than num_pages * max_retries.
C36_RunTerminates ==
    /\ (D.pc \in Running) ~> (D.pc \in Finished)
    /\ [](D.pc \in Running =>
            /\ D.nreq <= config.max_retries
            /\ D.total <= Min(D.page, D.n) * config.max_retries
            /\ D.total <= D.n * config.max_retries)

\* the sequential variant: the second page at its last attempt, after a first
\* page that succeeded at its last attempt
C36_Witness ==
    /\ variant = "sync"
    /\ config.max_retries = BgRetries
    /\ D.pc = "inflight"
    /\ D.page = 2
    /\ D.okPages = {1}
    /\ D.nreq = BgRetries
    /\ D.total = 2 * BgRetries

\* C36 as stated for the sequential variant: a run whose page p fails has
\* sent at most (p - 1) + max_retries requests when it raises.
C36_SeqBoundAsStated ==
    [][(/\ variant = "sync"
        /\ D.pc = "inflight"
        /\ run'["direct"].pc = "failed"
        /\ run'["direct"].error = "fetch") =>
          D.total <= (D.page - 1) + config.max_retries]_vars

============================================================================
